---- MODULE Spec2Model ----
(***************************************************************************)
(* A model of src/index.ts: the four conversions fromIPv4, toIPv4,         *)
(* fromIPv6 and toIPv6 between textual IP addresses and integers.          *)
(*                                                                         *)
(* Representation                                                          *)
(*   - a JavaScript string is a sequence of one-character strings;         *)
(*   - a JavaScript number that holds an integer n is the record           *)
(*     [hi |-> h, lo |-> l] with n = h * 2^16 + l and l in 0..65535 (the   *)
(*     model checker's integers stop at 2^31 - 1, the domain of toIPv4     *)
(*     goes up to 2^32 - 1);                                               *)
(*   - a 32-bit operand of a bitwise operator is a plain integer in        *)
(*     -2^31 .. 2^31 - 1, as ToInt32 makes it;                             *)
(*   - a BigInt n >= 0 is the sequence of its base-2^16 digits, least      *)
(*     significant first, without a most significant zero digit.           *)
(***************************************************************************)
EXTENDS Integers, Sequences, FiniteSets, TLC

VARIABLES
  fn,        \* the exported function that is called: "fromIPv4", "toIPv4", ...
  arg,       \* its argument (a string or a number)
  pc,        \* "ready": the call is about to run; "done": it has completed
  ret,       \* its completion: NotCalled, a return or a throw
  sections,  \* fromIPv6's local `sections` when the call completed
  hist       \* the completed calls whose result was passed on to the inverse

vars == <<fn, arg, pc, ret, sections, hist>>

-----------------------------------------------------------------------------
(* Strings                                                                 *)

Digits == <<"0", "1", "2", "3", "4", "5", "6", "7", "8", "9">>

HexDigits == <<"0", "1", "2", "3", "4", "5", "6", "7", "8", "9",
               "a", "b", "c", "d", "e", "f">>

UpperHexDigits == <<"0", "1", "2", "3", "4", "5", "6", "7", "8", "9",
                    "A", "B", "C", "D", "E", "F">>

IsDigit(c) == \E i \in 1..10 : Digits[i] = c

DigitValue(c) == (CHOOSE i \in 1..10 : Digits[i] = c) - 1

IsHexDigit(c) == \E i \in 1..16 : HexDigits[i] = c \/ UpperHexDigits[i] = c

HexDigitValue(c) ==
  (CHOOSE i \in 1..16 : HexDigits[i] = c \/ UpperHexDigits[i] = c) - 1

\* String.prototype.split with a one-character separator.
RECURSIVE SplitFrom(_, _, _, _)
SplitFrom(s, sep, i, cur) ==
  IF i > Len(s) THEN <<cur>>
  ELSE IF s[i] = sep THEN <<cur>> \o SplitFrom(s, sep, i + 1, <<>>)
  ELSE SplitFrom(s, sep, i + 1, Append(cur, s[i]))

split(s, sep) == SplitFrom(s, sep, 1, <<>>)

\* Array.prototype.join over an array of strings.
RECURSIVE join(_, _)
join(parts, sep) ==
  IF Len(parts) = 0 THEN <<>>
  ELSE IF Len(parts) = 1 THEN parts[1]
  ELSE parts[1] \o <<sep>> \o join(Tail(parts), sep)

-----------------------------------------------------------------------------
(* Numbers                                                                 *)

MinInt32 == -2147483647 - 1

\* The number n, for an n the model checker can hold.
NumOf(n) == [hi |-> n \div 65536, lo |-> n % 65536]

\* ToInt32 of the specification of JavaScript: the operand modulo 2^32, read
\* as a signed 32-bit integer.
ToInt32(x) == (((x.hi + 32768) % 65536) - 32768) * 65536 + x.lo

\* Bit k (0 = least significant) of the two's complement pattern of i.
BitOf(i, k) == IF k = 31 THEN (IF i < 0 THEN 1 ELSE 0) ELSE (i \div (2 ^ k)) % 2

RECURSIVE SumBits(_, _)
SumBits(b, k) == IF k < 0 THEN 0 ELSE b[k] * (2 ^ k) + SumBits(b, k - 1)

\* The signed 32-bit integer with the bit pattern b.
Int32OfBits(b) == SumBits(b, 30) + (IF b[31] = 1 THEN MinInt32 ELSE 0)

\* x << s
ShiftLeft(x, s) ==
  LET i == ToInt32(x)
      n == s % 32
  IN  NumOf(Int32OfBits([k \in 0..31 |-> IF k < n THEN 0 ELSE BitOf(i, k - n)]))

\* x >> s, the sign-propagating shift
ShiftRight(x, s) ==
  LET i == ToInt32(x)
      n == s % 32
  IN  NumOf(Int32OfBits([k \in 0..31 |->
                           IF k + n > 31 THEN BitOf(i, 31) ELSE BitOf(i, k + n)]))

\* x | y
BitOr(x, y) ==
  LET i == ToInt32(x)
      j == ToInt32(y)
  IN  NumOf(Int32OfBits([k \in 0..31 |->
                           IF BitOf(i, k) = 1 \/ BitOf(j, k) = 1 THEN 1 ELSE 0]))

\* x & y
BitAnd(x, y) ==
  LET i == ToInt32(x)
      j == ToInt32(y)
  IN  NumOf(Int32OfBits([k \in 0..31 |->
                           IF BitOf(i, k) = 1 /\ BitOf(j, k) = 1 THEN 1 ELSE 0]))

\* Number(s) for a string of decimal digits (Number("") is 0).
RECURSIVE DecimalValue(_)
DecimalValue(s) ==
  IF Len(s) = 0 THEN 0
  ELSE DecimalValue(SubSeq(s, 1, Len(s) - 1)) * 10 + DigitValue(s[Len(s)])

Number(s) == NumOf(DecimalValue(s))

\* String(n) for a natural number n: its decimal digits, no leading zero.
RECURSIVE DecimalDigits(_)
DecimalDigits(n) ==
  IF n < 10 THEN <<Digits[n + 1]>>
  ELSE Append(DecimalDigits(n \div 10), Digits[(n % 10) + 1])

\* String(x) for a number in the signed 32-bit range.
String(x) ==
  LET i == ToInt32(x)
  IN  IF i >= 0 THEN DecimalDigits(i)
      ELSE IF i = MinInt32 THEN <<"-">> \o DecimalDigits(214748364) \o <<"8">>
      ELSE <<"-">> \o DecimalDigits(-i)

-----------------------------------------------------------------------------
(* Completions                                                             *)

NotCalled == [kind |-> "none"]
Return(v) == [kind |-> "return", value |-> v]
Throw(m) == [kind |-> "throw", message |-> m]

-----------------------------------------------------------------------------
(* net.isIPv4, the predicate fromIPv4 imports: four parts separated by     *)
(* '.', each 25[0-5] | 2[0-4]d | 1dd | [1-9]?d.                            *)

IsV4Seg(p) ==
  /\ Len(p) \in 1..3
  /\ \A i \in 1..Len(p) : IsDigit(p[i])
  /\ \/ Len(p) = 1
     \/ Len(p) = 2 /\ p[1] # "0"
     \/ Len(p) = 3 /\ p[1] = "1"
     \/ Len(p) = 3 /\ p[1] = "2" /\ DigitValue(p[2]) <= 4
     \/ Len(p) = 3 /\ p[1] = "2" /\ p[2] = "5" /\ DigitValue(p[3]) <= 5

isIPv4(str) ==
  LET parts == split(str, ".")
  IN  Len(parts) = 4 /\ \A i \in 1..4 : IsV4Seg(parts[i])

-----------------------------------------------------------------------------
(* fromIPv4 and toIPv4                                                     *)

\* .map(Number)
MapNumber(a) == [i \in 1..Len(a) |-> Number(a[i])]

\* PackOctet with the shift of a hexadecimal digit instead of an octet.
PackOctetNarrow(a, b) == BitOr(ShiftLeft(a, 4), b)

\* (a, b) => (a << 0x08) | b
PackOctet(a, b) == BitOr(ShiftLeft(a, 8), b)

\* ReducePack folding from the right, as reduceRight does.
RECURSIVE ReducePackRight(_)
ReducePackRight(a) ==
  IF Len(a) = 1 THEN a[1]
  ELSE PackOctet(ReducePackRight(Tail(a)), a[1])

\* .reduce(PackOctet): without an initial value the first element starts the
\* accumulator (the array is never empty: split returns at least one part).
RECURSIVE ReducePack(_)
ReducePack(a) ==
  IF Len(a) = 1 THEN a[1]
  ELSE PackOctet(ReducePack(SubSeq(a, 1, Len(a) - 1)), a[Len(a)])

fromIPv4(str) ==
  IF ~isIPv4(str)
  THEN Throw("str should be a valid IPv4 address.")
  ELSE Return(ReducePack(MapNumber(split(str, "."))))

\* Shifts with the least significant octet first.
ShiftsReversed == <<0, 8, 16, 24>>

\* [0x18, 0x10, 0x08, 0x00]
Shifts == <<24, 16, 8, 0>>

\* UnpackOctet with the mask 0x7F.
UnpackOctetMask7(num, a) == BitAnd(ShiftRight(num, a), NumOf(127))

\* (a) => (num >> a) & 0xFF
UnpackOctet(num, a) == BitAnd(ShiftRight(num, a), NumOf(255))

toIPv4(num) ==
  Return(join([i \in 1..Len(Shifts) |-> String(UnpackOctet(num, Shifts[i]))], "."))

-----------------------------------------------------------------------------
(* BigInt arithmetic on base-2^16 digits, least significant first          *)

RECURSIVE Normalize(_)
Normalize(x) ==
  IF Len(x) > 0 /\ x[Len(x)] = 0 THEN Normalize(SubSeq(x, 1, Len(x) - 1)) ELSE x

\* BigInt(n) for a number 0 <= n < 2^31
BigInt(n) == Normalize(<<n % 65536, n \div 65536>>)

Digit(x, j) == IF j >= 1 /\ j <= Len(x) THEN x[j] ELSE 0

\* x << BigInt(s), exact
BigShiftLeft(x, s) ==
  LET q == s \div 16
      r == s % 16
      y == [j \in 1..(Len(x) + 1) |->
              ((Digit(x, j) * (2 ^ r)) % 65536) + (Digit(x, j - 1) \div (2 ^ (16 - r)))]
  IN  Normalize([j \in 1..q |-> 0] \o y)

\* x >> BigInt(s)
BigShiftRight(x, s) ==
  LET q == s \div 16
      r == s % 16
      d == IF q >= Len(x) THEN <<>> ELSE SubSeq(x, q + 1, Len(x))
  IN  Normalize([j \in 1..Len(d) |->
                   (d[j] \div (2 ^ r)) + ((Digit(d, j + 1) % (2 ^ r)) * (2 ^ (16 - r)))])

RECURSIVE AddFrom(_, _, _, _)
AddFrom(x, y, j, carry) ==
  IF j > Len(x) /\ j > Len(y)
  THEN (IF carry = 0 THEN <<>> ELSE <<carry>>)
  ELSE LET t == Digit(x, j) + Digit(y, j) + carry
       IN  <<t % 65536>> \o AddFrom(x, y, j + 1, t \div 65536)

\* x + y
BigAdd(x, y) == Normalize(AddFrom(x, y, 1, 0))

RECURSIVE AndDigit(_, _, _)
AndDigit(a, b, k) ==
  IF k < 0 THEN 0
  ELSE (IF BitOf(a, k) = 1 /\ BitOf(b, k) = 1 THEN 2 ^ k ELSE 0) + AndDigit(a, b, k - 1)

\* x & y
BigAnd(x, y) ==
  LET n == IF Len(x) < Len(y) THEN Len(x) ELSE Len(y)
  IN  Normalize([j \in 1..n |-> AndDigit(x[j], y[j], 15)])

\* The hexadecimal digits of 0 <= n < 2^16, lowercase.
RECURSIVE HexOf(_)
HexOf(n) ==
  IF n < 16 THEN <<HexDigits[n + 1]>>
  ELSE Append(HexOf(n \div 16), HexDigits[(n % 16) + 1])

PadHex(h) == [j \in 1..(4 - Len(h)) |-> "0"] \o h

\* x.toString(16)
RECURSIVE BigToString16(_)
BigToString16(x) ==
  IF Len(x) = 0 THEN <<"0">>
  ELSE IF Len(x) = 1 THEN HexOf(x[1])
  ELSE BigToString16(Tail(x)) \o PadHex(HexOf(x[1]))

NaN == -1

\* parseInt(s, 16): the value of the longest prefix of hexadecimal digits, NaN
\* when there is none (a valid hextet has at most 4 digits, so the value fits).
RECURSIVE HexPrefixLen(_, _)
HexPrefixLen(s, i) ==
  IF i <= Len(s) /\ IsHexDigit(s[i]) THEN HexPrefixLen(s, i + 1) ELSE i - 1

RECURSIVE HexValue(_)
HexValue(s) ==
  IF Len(s) = 0 THEN 0
  ELSE HexValue(SubSeq(s, 1, Len(s) - 1)) * 16 + HexDigitValue(s[Len(s)])

parseInt16(s) ==
  LET n == HexPrefixLen(s, 1)
  IN  IF n = 0 THEN NaN ELSE HexValue(SubSeq(s, 1, n))

-----------------------------------------------------------------------------
(* net.isIPv6, the predicate fromIPv6 imports (IPv6Reg of Node's           *)
(* lib/internal/net.js): an address, then optionally '%' and a zone of one *)
(* or more of [0-9a-zA-Z-.:]. The address is eight hextets of 1 to 4       *)
(* hexadecimal digits separated by ':', or at most seven with one '::'     *)
(* before, between or after them; a dotted quad may stand for the last two *)
(* hextets.                                                                *)

IsV6Seg(p) == Len(p) \in 1..4 /\ \A i \in 1..Len(p) : IsHexDigit(p[i])

\* The parts between the ':' of a hextet-form address.
IsHextetParts(parts) ==
  LET n == Len(parts)
      empty == {i \in 1..n : parts[i] = <<>>}
  IN  /\ \A i \in 1..n : parts[i] # <<>> => IsV6Seg(parts[i])
      /\ \/ empty = {} /\ n = 8
         \/ n \in 3..8 /\ \E i \in 2..(n - 1) : empty = {i}
         \/ n \in 3..9 /\ empty = {1, 2}
         \/ n \in 3..9 /\ empty = {n - 1, n}
         \/ n = 3 /\ empty = {1, 2, 3}

\* An address in hextet form: no dotted quad, no zone.
IsHextetForm(str) == IsHextetParts(split(str, ":"))

IsV6Address(str) ==
  LET parts == split(str, ":")
      n == Len(parts)
  IN  IF n >= 2 /\ isIPv4(parts[n])
      THEN IsHextetParts(SubSeq(parts, 1, n - 1) \o << <<"0">>, <<"0">> >>)
      ELSE IsHextetParts(parts)

OtherLetters == {"g", "h", "i", "j", "k", "l", "m", "n", "o", "p", "q", "r", "s",
                 "t", "u", "v", "w", "x", "y", "z",
                 "G", "H", "I", "J", "K", "L", "M", "N", "O", "P", "Q", "R", "S",
                 "T", "U", "V", "W", "X", "Y", "Z"}

IsZoneChar(c) == IsHexDigit(c) \/ c \in OtherLetters \/ c \in {"-", ".", ":"}

\* The position of the first '%' of s from i on, 0 when there is none.
RECURSIVE PercentFrom(_, _)
PercentFrom(s, i) ==
  IF i > Len(s) THEN 0 ELSE IF s[i] = "%" THEN i ELSE PercentFrom(s, i + 1)

isIPv6(str) ==
  LET p == PercentFrom(str, 1)
  IN  IF p = 0 THEN IsV6Address(str)
      ELSE /\ IsV6Address(SubSeq(str, 1, p - 1))
           /\ p < Len(str)
           /\ \A i \in (p + 1)..Len(str) : IsZoneChar(str[i])

-----------------------------------------------------------------------------
(* fromIPv6                                                                *)

\* sections.indexOf(""): the first index (from 0) of an empty string, or -1
indexOf(a) ==
  IF \E i \in 1..Len(a) : a[i] = <<>>
  THEN (CHOOSE i \in 1..Len(a) : a[i] = <<>> /\ \A j \in 1..(i - 1) : a[j] # <<>>) - 1
  ELSE -1

\* splice with a delete count of 0: the empty section stays.
spliceKeep(a, start, items) ==
  SubSeq(a, 1, start) \o items \o SubSeq(a, start + 1, Len(a))

\* a.splice(start, 1, ...items) for 0 <= start < a.length: a afterwards
splice(a, start, items) ==
  SubSeq(a, 1, start) \o items \o SubSeq(a, start + 2, Len(a))

\* numZeros without the + 1 that makes up for the empty section.
numZerosShort(a) == 8 - Len(a)

\* 8 - sections.length + 1
numZeros(a) == 8 - Len(a) + 1

\* new Array(numZeros).fill("0")
ZeroSections(n) == [j \in 1..n |-> <<"0">>]

\* `sections` after the abbreviation has been filled in
Expand(a) ==
  LET emptySectionIndex == indexOf(a)
  IN  IF emptySectionIndex # -1
      THEN splice(a, emptySectionIndex, ZeroSections(numZeros(a)))
      ELSE a

\* The section without the || "0".
OrZeroDropped(section) == section

\* section || "0"
OrZero(section) == IF section = <<>> THEN <<"0">> ELSE section

\* (acc << 16n) + BigInt(parseInt(section || "0", 16))
FoldSection(acc, section) ==
  BigAdd(BigShiftLeft(acc, 16), BigInt(parseInt16(OrZero(section))))

\* sections.reduce(FoldSection, 0n)
RECURSIVE ReduceSections(_)
ReduceSections(a) ==
  IF Len(a) = 0 THEN <<>>
  ELSE FoldSection(ReduceSections(SubSeq(a, 1, Len(a) - 1)), a[Len(a)])

\* The local `sections` when fromIPv6 completes; <<>> when it was never
\* assigned (split returns at least one part). new Array(numZeros) throws for
\* a negative length, before the splice.
sectionsOf(str) ==
  LET parts == split(str, ":")
  IN  IF ~isIPv6(str) THEN <<>>
      ELSE IF indexOf(parts) # -1 /\ numZeros(parts) < 0 THEN parts
      ELSE Expand(parts)

fromIPv6(str) ==
  LET parts == split(str, ":")
      expanded == Expand(parts)
  IN  IF ~isIPv6(str)
      THEN Throw("str should be a valid IPv6 address.")
      ELSE IF indexOf(parts) # -1 /\ numZeros(parts) < 0
      THEN Throw("RangeError: Invalid array length")
      ELSE IF \E i \in 1..Len(expanded) : parseInt16(OrZero(expanded[i])) = NaN
      THEN Throw("RangeError: NaN cannot be converted to a BigInt")
      ELSE Return(ReduceSections(expanded))

-----------------------------------------------------------------------------
(* toIPv6                                                                  *)

\* ((num >> BigInt(i * 16)) & 0xFFFFn).toString(16)
SectionText(num, i) == BigToString16(BigAnd(BigShiftRight(num, i * 16), <<65535>>))

\* The loop: unshift puts the section of i = 7 first.
SectionsOfNum(num) == [j \in 1..8 |-> SectionText(num, 8 - j)]

\* The length of the match of (:0)*(:|$) at position i of s when the group is
\* repeated k times, or -1: the group is greedy, so the largest k is tried
\* first and fewer repetitions on failure.
ZeroRunTail(s, i, k) ==
  LET e == i + 2 * k
  IN  IF /\ e - 1 <= Len(s)
         /\ \A j \in 0..(k - 1) : s[i + 2 * j] = ":" /\ s[i + 2 * j + 1] = "0"
      THEN (IF e <= Len(s) /\ s[e] = ":" THEN 2 * k + 1
            ELSE IF e = Len(s) + 1 THEN 2 * k
            ELSE -1)
      ELSE -1

\* ZeroRunTailFrom for a lazy group, (:0)*?: the fewest repetitions first.
RECURSIVE ZeroRunTailLazyFrom(_, _, _, _)
ZeroRunTailLazyFrom(s, i, k, n) ==
  IF n > k THEN -1
  ELSE IF ZeroRunTail(s, i, n) # -1 THEN ZeroRunTail(s, i, n)
  ELSE ZeroRunTailLazyFrom(s, i, k, n + 1)

ZeroRunTailLazy(s, i, k) == ZeroRunTailLazyFrom(s, i, k, 0)

RECURSIVE ZeroRunTailFrom(_, _, _)
ZeroRunTailFrom(s, i, k) ==
  IF k < 0 THEN -1
  ELSE IF ZeroRunTail(s, i, k) # -1 THEN ZeroRunTail(s, i, k)
  ELSE ZeroRunTailFrom(s, i, k - 1)

\* The length of the match of 0(:0)*(:|$) at position i of s, or -1.
ZeroRunAt(s, i) ==
  IF i <= Len(s) /\ s[i] = "0"
  THEN (IF ZeroRunTailFrom(s, i + 1, Len(s) \div 2) = -1 THEN -1
        ELSE 1 + ZeroRunTailFrom(s, i + 1, Len(s) \div 2))
  ELSE -1

\* The length of the match of /(^|:)0(:0)*(:|$)/ that starts at position i of
\* s, or -1: the alternative ^ is tried before ':'.
MatchZeroRun(s, i) ==
  IF i = 1 /\ ZeroRunAt(s, 1) # -1 THEN ZeroRunAt(s, 1)
  ELSE IF i <= Len(s) /\ s[i] = ":" /\ ZeroRunAt(s, i + 1) # -1
  THEN 1 + ZeroRunAt(s, i + 1)
  ELSE -1

\* The leftmost position of s, from i on, where the zero-run pattern
\* matches; 0 when it matches nowhere.
RECURSIVE FirstZeroRun(_, _)
FirstZeroRun(s, i) ==
  IF i > Len(s) THEN 0
  ELSE IF MatchZeroRun(s, i) # -1 THEN i
  ELSE FirstZeroRun(s, i + 1)

\* ReplaceZeroRun with the g flag: every match is replaced.
RECURSIVE ReplaceZeroRunsFrom(_, _)
ReplaceZeroRunsFrom(s, from) ==
  LET i == FirstZeroRun(s, from)
  IN  IF i = 0 THEN s
      ELSE ReplaceZeroRunsFrom(SubSeq(s, 1, i - 1) \o <<":", ":">>
                                 \o SubSeq(s, i + MatchZeroRun(s, i), Len(s)), i + 2)

ReplaceZeroRunGlobal(s) == ReplaceZeroRunsFrom(s, 1)

\* .replace(/(^|:)0(:0)*(:|$)/, "::"): the leftmost match only
ReplaceZeroRun(s) ==
  LET i == FirstZeroRun(s, 1)
  IN  IF i = 0 THEN s
      ELSE SubSeq(s, 1, i - 1) \o <<":", ":">>
             \o SubSeq(s, i + MatchZeroRun(s, i), Len(s))

\* The length of the run of ':' that starts at position i of s.
RECURSIVE ColonRun(_, _)
ColonRun(s, i) == IF i <= Len(s) /\ s[i] = ":" THEN 1 + ColonRun(s, i + 1) ELSE 0

\* The leftmost position of s, from i on, where three or more ':' start; 0
\* when there is none.
RECURSIVE FirstColons(_, _)
FirstColons(s, i) ==
  IF i > Len(s) THEN 0
  ELSE IF ColonRun(s, i) >= 3 THEN i
  ELSE FirstColons(s, i + 1)

\* .replace(/:{3,}/, "::"): the leftmost run of three or more colons only
ReplaceColons(s) ==
  LET i == FirstColons(s, 1)
  IN  IF i = 0 THEN s
      ELSE SubSeq(s, 1, i - 1) \o <<":", ":">> \o SubSeq(s, i + ColonRun(s, i), Len(s))

toIPv6(num) == Return(ReplaceColons(ReplaceZeroRun(join(SectionsOfNum(num), ":"))))

-----------------------------------------------------------------------------
(* The arguments the calls are made with                                   *)

\* Decimal octets, the boundaries of the sign bit among them.
OctetTexts == {<<"0">>, <<"1">>, <<"2", "7">>, <<"1", "2", "7">>,
               <<"1", "2", "8">>, <<"2", "5", "5">>}

\* "1.2.3.4"
Text1234 == <<"1", ".", "2", ".", "3", ".", "4">>

ValidIPv4Texts ==
  {join(<<a, b, c, d>>, ".") : a \in OctetTexts, b \in OctetTexts,
                               c \in OctetTexts, d \in OctetTexts}
    \cup {Text1234}

\* Strings net.isIPv4 rejects: "", "999.1.1.1", "256.0.0.1", "01.2.3.4",
\* "1.2.3", "1.2.3.4.5", "1..2.3", "a.b.c.d", "1.2.3.-4", "::1".
InvalidIPv4Texts ==
  { <<>>,
    <<"9", "9", "9", ".", "1", ".", "1", ".", "1">>,
    <<"2", "5", "6", ".", "0", ".", "0", ".", "1">>,
    <<"0", "1", ".", "2", ".", "3", ".", "4">>,
    <<"1", ".", "2", ".", "3">>,
    <<"1", ".", "2", ".", "3", ".", "4", ".", "5">>,
    <<"1", ".", ".", "2", ".", "3">>,
    <<"a", ".", "b", ".", "c", ".", "d">>,
    <<"1", ".", "2", ".", "3", ".", "-", "4">>,
    <<":", ":", "1">> }

\* Numbers 0 .. 2^32 - 1, byte by byte.
ByteValues == {0, 1, 127, 128, 255}

Uint32Values ==
  {[hi |-> a * 256 + b, lo |-> c * 256 + d] :
     a \in ByteValues, b \in ByteValues, c \in ByteValues, d \in ByteValues}

\* The hextets of two full addresses; every position of a text holds either
\* its hextet of one of them or a zero hextet.
HextetTexts ==
  << << <<"2", "0", "0", "1">>, <<"d", "b", "8">>, <<"8", "5", "a", "3">>,
        <<"8", "d", "3">>, <<"1", "3", "1", "9">>, <<"8", "a", "2", "e">>,
        <<"3", "7", "0">>, <<"7", "3", "4", "8">> >>,
     << <<"F", "F", "F", "F">>, <<"0", "D", "B", "8">>, <<"0", "0", "a", "b">>,
        <<"1">>, <<"0", "0", "0", "1">>, <<"A", "b", "C", "d">>,
        <<"f", "e", "8", "0">>, <<"0", "0", "f", "0">> >> >>

ZeroTexts == << <<"0">>, <<"0", "0", "0", "0">> >>

\* The hextets at positions from..to of address p, those outside `on` zero.
Hextets(p, on, from, to) ==
  [j \in 1..(to - from + 1) |->
     IF (from + j - 1) \in on THEN HextetTexts[p][from + j - 1] ELSE ZeroTexts[p]]

FullIPv6Texts ==
  {join(Hextets(p, on, 1, 8), ":") : p \in 1..2, on \in SUBSET (1..8)}

\* k hextets, '::', m hextets, with k + m <= 7.
AbbreviatedIPv6Texts ==
  UNION {{join(Hextets(p, on, 1, km[1]), ":") \o <<":", ":">>
            \o join(Hextets(p, on, 9 - km[2], 8), ":") :
            on \in SUBSET ((1..km[1]) \cup ((9 - km[2])..8))} :
         p \in 1..2, km \in {x \in (0..7) \X (0..7) : x[1] + x[2] <= 7}}

\* "::1", "::", "2001:db8::1", "2001:0db8:0000:0000:0000:0000:0000:0001"
TextLoopback == <<":", ":", "1">>
TextUnspecified == <<":", ":">>
TextShort == <<"2", "0", "0", "1", ":", "d", "b", "8", ":", ":", "1">>
TextLong ==
  <<"2", "0", "0", "1", ":", "0", "d", "b", "8", ":", "0", "0", "0", "0",
    ":", "0", "0", "0", "0", ":", "0", "0", "0", "0", ":", "0", "0", "0", "0",
    ":", "0", "0", "0", "0",
    ":", "0", "0", "0", "1">>

HextetFormTexts ==
  FullIPv6Texts \cup AbbreviatedIPv6Texts
    \cup {TextLoopback, TextUnspecified, TextShort, TextLong}

\* Strings net.isIPv6 accepts that are not in hextet form: "fe80::1%eth0",
\* "::ffff:1.2.3.4", "1:2:3:4:5:6:1.2.3.4", "::1%a:g", "1:2:3:4:5:6:7::%a:b:c".
TextZoned == <<"f", "e", "8", "0", ":", ":", "1", "%", "e", "t", "h", "0">>
TextMapped == <<":", ":", "f", "f", "f", "f", ":", "1", ".", "2", ".", "3", ".", "4">>
TextQuadTail ==
  <<"1", ":", "2", ":", "3", ":", "4", ":", "5", ":", "6", ":",
    "1", ".", "2", ".", "3", ".", "4">>
TextZoneColon == <<":", ":", "1", "%", "a", ":", "g">>
TextZoneColons ==
  <<"1", ":", "2", ":", "3", ":", "4", ":", "5", ":", "6", ":",
    "7", ":", ":", "%", "a", ":", "b", ":", "c">>

ScopedOrMappedTexts ==
  {TextZoned, TextMapped, TextQuadTail, TextZoneColon, TextZoneColons}

ValidIPv6Texts == HextetFormTexts \cup ScopedOrMappedTexts

\* Strings net.isIPv6 rejects: "", ":", ":::", "1::2::3", "1:2:3:4:5:6:7",
\* "1:2:3:4:5:6:7:8:9", "12345::", "g::1", "1:2:3:4:5:6:7:8::", ":1:2:3:4:5:6:7",
\* "1.2.3.4", "::1%", "1:2:3:4:5:6:7:1.2.3.4".
InvalidIPv6Texts ==
  { <<>>,
    <<":">>,
    <<":", ":", ":">>,
    <<"1", ":", ":", "2", ":", ":", "3">>,
    <<"1", ":", "2", ":", "3", ":", "4", ":", "5", ":", "6", ":", "7">>,
    <<"1", ":", "2", ":", "3", ":", "4", ":", "5", ":", "6", ":", "7", ":", "8", ":", "9">>,
    <<"1", "2", "3", "4", "5", ":", ":">>,
    <<"g", ":", ":", "1">>,
    <<"1", ":", "2", ":", "3", ":", "4", ":", "5", ":", "6", ":", "7", ":", "8", ":", ":">>,
    <<":", "1", ":", "2", ":", "3", ":", "4", ":", "5", ":", "6", ":", "7">>,
    <<"1", ".", "2", ".", "3", ".", "4">>,
    <<":", ":", "1", "%">>,
    <<"1", ":", "2", ":", "3", ":", "4", ":", "5", ":", "6", ":", "7", ":",
      "1", ".", "2", ".", "3", ".", "4">> }

\* BigInts 0 .. 2^128 - 1: every 16-bit digit zero or one of three values
\* (1, 0x10, 0xffff).
DigitValues == <<1, 16, 65535>>

Uint128Values ==
  {Normalize([j \in 1..8 |-> IF j \in on THEN DigitValues[p] ELSE 0]) :
     p \in 1..3, on \in SUBSET (1..8)}

-----------------------------------------------------------------------------
(* The calls                                                               *)

\* How many results are passed on to the inverse function.
MaxChain == 2

Inverse(f) ==
  CASE f = "fromIPv4" -> "toIPv4"
    [] f = "toIPv4" -> "fromIPv4"
    [] f = "fromIPv6" -> "toIPv6"
    [] f = "toIPv6" -> "fromIPv6"

Init ==
  /\ \/ fn = "fromIPv4" /\ arg \in ValidIPv4Texts \cup InvalidIPv4Texts
     \/ fn = "toIPv4" /\ arg \in Uint32Values
     \/ fn = "fromIPv6" /\ arg \in ValidIPv6Texts \cup InvalidIPv6Texts
     \/ fn = "toIPv6" /\ arg \in Uint128Values
  /\ pc = "ready"
  /\ ret = NotCalled
  /\ sections = <<>>
  /\ hist = <<>>

CallFromIPv4 ==
  /\ pc = "ready" /\ fn = "fromIPv4"
  /\ ret' = fromIPv4(arg)
  /\ pc' = "done"
  /\ UNCHANGED <<fn, arg, sections, hist>>

CallToIPv4 ==
  /\ pc = "ready" /\ fn = "toIPv4"
  /\ ret' = toIPv4(arg)
  /\ pc' = "done"
  /\ UNCHANGED <<fn, arg, sections, hist>>

CallFromIPv6 ==
  /\ pc = "ready" /\ fn = "fromIPv6"
  /\ ret' = fromIPv6(arg)
  /\ sections' = sectionsOf(arg)
  /\ pc' = "done"
  /\ UNCHANGED <<fn, arg, hist>>

CallToIPv6 ==
  /\ pc = "ready" /\ fn = "toIPv6"
  /\ ret' = toIPv6(arg)
  /\ pc' = "done"
  /\ UNCHANGED <<fn, arg, sections, hist>>

\* The caller passes the value returned to the inverse function.
PassOn ==
  /\ pc = "done" /\ ret.kind = "return"
  /\ Len(hist) < MaxChain
  /\ hist' = Append(hist, [fn |-> fn, arg |-> arg, ret |-> ret])
  /\ fn' = Inverse(fn)
  /\ arg' = ret.value
  /\ ret' = NotCalled
  /\ sections' = <<>>
  /\ pc' = "ready"

Next == CallFromIPv4 \/ CallToIPv4 \/ CallFromIPv6 \/ CallToIPv6 \/ PassOn

Spec == Init /\ [][Next]_vars


-----------------------------------------------------------------------------
(* Properties                                                              *)

Done(f) == pc = "done" /\ fn = f

\* The octets a, b, c, d of a valid IPv4 text, as integers.
OctetsOf(str) == [i \in 1..4 |-> DecimalValue(split(str, ".")[i])]

\* The bytes of a signed 32-bit integer's bit pattern, most significant first.
BytesOf(i) == <<(i \div 16777216) % 256, (i \div 65536) % 256, (i \div 256) % 256, i % 256>>

IsUint32(x) == x.hi \in 0..65535 /\ x.lo \in 0..65535

\* C1: for every valid IPv4 text, fromIPv4 returns a value in [0, 2^32 - 1],
\* also when the first octet is 128 or more.
C1_FromIPv4Unsigned ==
  (Done("fromIPv4") /\ isIPv4(arg)) => (ret.kind = "return" /\ IsUint32(ret.value))

\* C2: fromIPv4 packs the octets big-endian: bits 24-31, 16-23, 8-15 and 0-7
\* of the result's 32-bit pattern are a, b, c and d; fromIPv4("1.2.3.4") is
\* 16909060 and fromIPv4("0.0.0.0") is 0.
C2_FromIPv4BigEndian ==
  (Done("fromIPv4") /\ isIPv4(arg)) =>
    /\ ret.kind = "return"
    /\ BytesOf(ToInt32(ret.value)) = OctetsOf(arg)
    /\ arg = Text1234 => ret.value = NumOf(16909060)
    /\ arg = <<"0", ".", "0", ".", "0", ".", "0">> => ret.value = NumOf(0)

\* A call of fromIPv4 on a text whose first octet is 128 or more has returned.
C2_Witness ==
  /\ Done("fromIPv4") /\ hist = <<>> /\ isIPv4(arg)
  /\ OctetsOf(arg)[1] >= 128 /\ OctetsOf(arg)[4] = 1
  /\ ret.kind = "return"

\* C3: for every valid canonical IPv4 text s, toIPv4(fromIPv4(s)) = s, also
\* when the first octet is 128..255.
C3_IPv4TextRoundTrip ==
  (Done("toIPv4") /\ hist # <<>> /\ hist[1].fn = "fromIPv4") =>
    ret = Return(hist[Len(hist)].arg)

\* toIPv4 has run on fromIPv4's result for a text whose first octet is 255.
C3_Witness ==
  /\ Done("toIPv4") /\ Len(hist) = 1 /\ hist[1].fn = "fromIPv4"
  /\ OctetsOf(hist[1].arg)[1] = 255
  /\ ret.kind = "return"

\* C4: fromIPv6(toIPv6(v)) = v for every v in [0, 2^128 - 1], so for every
\* valid hextet-form text s the text toIPv6(fromIPv6(s)) is accepted by
\* fromIPv6 and has the value fromIPv6(s).
C4_IPv6ValueRoundTrip ==
  (Done("fromIPv6") /\ hist # <<>>) =>
    /\ IsHextetForm(arg)
    /\ ret = Return(hist[Len(hist)].arg)

\* The position of the first '::' of s, 0 when it has none.
RECURSIVE DoubleColonFrom(_, _)
DoubleColonFrom(s, i) ==
  IF i >= Len(s) THEN 0
  ELSE IF s[i] = ":" /\ s[i + 1] = ":" THEN i
  ELSE DoubleColonFrom(s, i + 1)

DoubleColonAt(s) == DoubleColonFrom(s, 1)

\* fromIPv6 has run on the text toIPv6 made of the value of a given text, and
\* that text holds a '::' in the middle.
C4_Witness ==
  /\ Done("fromIPv6") /\ Len(hist) = 2 /\ hist[1].fn = "fromIPv6"
  /\ DoubleColonAt(arg) > 1 /\ DoubleColonAt(arg) + 1 < Len(arg)
  /\ ret = hist[1].ret

\* The eight hextets an abbreviated text stands for: those before the '::',
\* the missing zero hextets, those after it.
ExpandedHextets(s) ==
  LET i == DoubleColonAt(s)
      left == SubSeq(s, 1, i - 1)
      right == SubSeq(s, i + 2, Len(s))
      l == IF left = <<>> THEN <<>> ELSE split(left, ":")
      r == IF right = <<>> THEN <<>> ELSE split(right, ":")
  IN  l \o [j \in 1..(8 - Len(l) - Len(r)) |-> <<"0">>] \o r

\* The integer whose 16-bit digits are the hextets h, the first one the most
\* significant.
ValueOfHextets(h) == Normalize([j \in 1..8 |-> HexValue(h[9 - j])])

\* C5: for every valid text with a '::', fromIPv6 returns what it returns for
\* the 8-hextet text in which the '::' is replaced by the missing zero
\* hextets, the leftmost hextet in the most significant 16 bits;
\* fromIPv6("::1") = 1, fromIPv6("::") = 0, and "2001:db8::1" has the value of
\* "2001:0db8:0000:0000:0000:0000:0000:0001".
C5_AbbreviationIsExpansion ==
  (Done("fromIPv6") /\ IsHextetForm(arg) /\ DoubleColonAt(arg) # 0) =>
    /\ ret = Return(ValueOfHextets(ExpandedHextets(arg)))
    /\ ret = fromIPv6(join(ExpandedHextets(arg), ":"))
    /\ arg = TextLoopback => ret = Return(<<1>>)
    /\ arg = TextUnspecified => ret = Return(<<>>)
    /\ arg = TextShort => ret = fromIPv6(TextLong)

\* fromIPv6 has returned for a text that ends in '::' after 7 hextets.
C5_Witness ==
  /\ Done("fromIPv6") /\ IsHextetForm(arg)
  /\ DoubleColonAt(arg) + 1 = Len(arg)
  /\ Len(split(arg, ":")) = 9
  /\ ret.kind = "return" /\ Len(ret.value) = 8

\* The decimal text of the four bytes of v in [0, 2^32 - 1], joined by '.'.
DottedBytes(v) ==
  join(<<DecimalDigits(v.hi \div 256), DecimalDigits(v.hi % 256),
         DecimalDigits(v.lo \div 256), DecimalDigits(v.lo % 256)>>, ".")

\* C6: for every v in [0, 2^32 - 1], toIPv4 returns the decimal numbers
\* (v >> 24) & 255, (v >> 16) & 255, (v >> 8) & 255, v & 255 joined by '.';
\* toIPv4(0) = "0.0.0.0" and toIPv4(0xFFFFFFFF) = "255.255.255.255".
C6_ToIPv4MostSignificantFirst ==
  (Done("toIPv4") /\ IsUint32(arg)) =>
    /\ ret = Return(DottedBytes(arg))
    /\ arg = NumOf(0) => ret.value = <<"0", ".", "0", ".", "0", ".", "0">>
    /\ arg = [hi |-> 65535, lo |-> 65535] =>
         ret.value = <<"2", "5", "5", ".", "2", "5", "5", ".",
                       "2", "5", "5", ".", "2", "5", "5">>

\* toIPv4 has returned for a v of 2^31 or more.
C6_Witness ==
  /\ Done("toIPv4") /\ hist = <<>> /\ arg.hi >= 32768 /\ arg.lo = 1
  /\ ret.kind = "return"

\* C7: fromIPv4 and fromIPv6 throw exactly when isIPv4 / isIPv6 rejects the
\* text, before anything is split or folded, and return a value when it
\* accepts the text; toIPv4 and toIPv6 never throw.
C7_ThrowsIffRejected ==
  /\ Done("fromIPv4") =>
       /\ ~isIPv4(arg) => ret = Throw("str should be a valid IPv4 address.")
       /\ isIPv4(arg) => ret.kind = "return"
  /\ Done("fromIPv6") =>
       /\ ~isIPv6(arg) =>
            ret = Throw("str should be a valid IPv6 address.") /\ sections = <<>>
       /\ isIPv6(arg) => ret.kind = "return"
  /\ (Done("toIPv4") \/ Done("toIPv6")) => ret.kind = "return"

\* C8: for every v in [0, 2^32 - 1], toIPv4(fromIPv4(toIPv4(v))) = toIPv4(v).
C8_IPv4FormatIdempotent ==
  /\ (Done("fromIPv4") /\ hist # <<>> /\ hist[1].fn = "toIPv4") => ret.kind = "return"
  /\ (Done("toIPv4") /\ Len(hist) >= 2 /\ hist[1].fn = "toIPv4") =>
       ret = hist[Len(hist) - 1].ret

\* toIPv4 has run on fromIPv4(toIPv4(v)) for a v of 2^31 or more.
C8_Witness ==
  /\ Done("toIPv4") /\ Len(hist) = 2 /\ hist[1].fn = "toIPv4"
  /\ hist[1].arg.hi >= 32768
  /\ ret.kind = "return"

\* C9: for every valid hextet-form text, the segment list fromIPv6 folds has
\* exactly 8 segments: for a '::' in the middle, at the start, at the end,
\* alone, and for one that stands for a single zero hextet.
C9_EightSections ==
  (Done("fromIPv6") /\ IsHextetForm(arg)) => Len(sections) = 8

\* fromIPv6 has completed for a text of 9 split segments (a leading '::'
\* before 7 hextets).
C9_Witness ==
  /\ Done("fromIPv6") /\ IsHextetForm(arg)
  /\ DoubleColonAt(arg) = 1
  /\ Len(split(arg, ":")) = 9
  /\ Len(sections) = 8

\* The 16-bit segments of v, the most significant first.
SegmentsOf(v) == [j \in 1..8 |-> Digit(v, 9 - j)]

\* The first index from i on of a zero segment, 0 when there is none.
RECURSIVE FirstZeroFrom(_, _)
FirstZeroFrom(g, i) ==
  IF i > Len(g) THEN 0 ELSE IF g[i] = 0 THEN i ELSE FirstZeroFrom(g, i + 1)

\* The last index of the run of zero segments that starts at i.
RECURSIVE ZeroRunEnd(_, _)
ZeroRunEnd(g, i) == IF i < Len(g) /\ g[i + 1] = 0 THEN ZeroRunEnd(g, i + 1) ELSE i

\* The segments in lowercase hexadecimal joined by ':', the leftmost maximal
\* run of zero segments replaced by '::'.
FirstRunCollapsed(v) ==
  LET g == SegmentsOf(v)
      h == [j \in 1..8 |-> HexOf(g[j])]
      a == FirstZeroFrom(g, 1)
      b == ZeroRunEnd(g, a)
  IN  IF a = 0 THEN join(h, ":")
      ELSE join(SubSeq(h, 1, a - 1), ":") \o <<":", ":">> \o join(SubSeq(h, b + 1, 8), ":")

\* How many positions of s start a '::'.
DoubleColons(s) == Cardinality({i \in 1..(Len(s) - 1) : s[i] = ":" /\ s[i + 1] = ":"})

\* C10: for every v in [0, 2^128 - 1], toIPv6 returns the 8 segments of v in
\* lowercase hexadecimal joined by ':' with the leftmost maximal run of zero
\* segments replaced by '::' and every later zero segment left as '0'; the
\* text holds at most one '::' and never three colons in a row; toIPv6(1) is
\* "::1".
C10_FirstZeroRunCollapsed ==
  Done("toIPv6") =>
    /\ ret = Return(FirstRunCollapsed(arg))
    /\ DoubleColons(ret.value) <= 1
    /\ \A i \in 1..(Len(ret.value) - 2) :
         ~(ret.value[i] = ":" /\ ret.value[i + 1] = ":" /\ ret.value[i + 2] = ":")
    /\ arg = <<1>> => ret.value = TextLoopback

\* toIPv6 has returned for a v whose first zero run is one segment and whose
\* later zero run is four: 1:0:1:0:0:0:0:1.
C10_Witness ==
  /\ Done("toIPv6") /\ arg = <<1, 0, 0, 0, 0, 1, 0, 1>>
  /\ ret.value = <<"1", ":", ":", "1", ":", "0", ":", "0", ":", "0", ":", "0", ":", "1">>

====
